---- MODULE Spec2Model ----
(***************************************************************************)
(* Model of app/clients/claude_client.py: the TokenManager (an ordered     *)
(* pool of credential entries with a cursor) and the ClaudeClient that     *)
(* rotates through the pool when a request is rejected for lack of quota.  *)
(*                                                                         *)
(* Indices are 0-based as in the source; the entry at index i of the       *)
(* Python list is tokens[i + 1] of the TLA+ sequence.                      *)
(***************************************************************************)
EXTENDS Integers, Sequences, FiniteSets, TLC

VARIABLES
    tokens,               \* TokenManager.tokens: the list of entries
    current_token_index,  \* TokenManager.current_token_index: the cursor
    api_key,              \* ClaudeClient.api_key: the active credential
    provider,             \* ClaudeClient.provider
    headers,              \* stream_chat's local: headers of the request last sent
    data,                 \* stream_chat's local: body of the request last sent
    requests,             \* number of requests the call has sent
    out,                  \* events the call has yielded to the caller
    pc,                   \* new, pool (a TokenManager on its own), config_error,
                          \* idle (a client between calls), await, stream
    last,                 \* the operation that produced this state and its result
    conn,                 \* transport connections the call being followed holds open
    response,             \* the body of the 200 response being streamed (SpecBody)
    pos,                  \* how much of response iter_any has delivered
    pending,              \* lines of the chunk in hand the for loop has yet to read
    peer                  \* locals of a second stream_chat call on the client (SpecPeer)

vars == <<tokens, current_token_index, api_key, provider, headers, data,
          requests, out, pc, last, conn, response, pos, pending, peer>>

\* the variables only the decode loop, SpecBody and SpecPeer change
aside == <<response, pos, pending, peer>>

----------------------------------------------------------------------------
(* Bounds of the model *)

\* longest pool a token file describes when the TokenManager is followed
\* on its own (SpecPool)
MaxPool == 3
\* longest pool a token file describes when a whole client is followed (Spec)
MaxClientPool == 2
\* requests one stream_chat call may send before the model stops following it
MaxRequests == 5
\* events one stream_chat call may yield before the model stops following it
MaxOut == 2
\* lines in one chunk of a response body
MaxLines == 1

\* entries in a token file of a pool that is loaded again
MaxReload == 2
\* lines in a response body that is followed piece by piece (SpecBody)
MaxBodyLines == 3
\* longest pool of a client on which two calls interleave (SpecPeer)
MaxPeerPool == 2
\* requests the second call may send before the model stops following it
MaxPeerRequests == 2

----------------------------------------------------------------------------
(* Values *)

\* Python's None; an api_key of None (or "") is falsy
None == "None"

\* token strings the token file may hold (entries may repeat a string)
PoolTokens == {"t1", "t2"}

\* the api_key argument of the constructor: absent, a key that is not in the
\* file, or a key that is also a token of the file
ApiKeyArgs == {None, "k", "t1"}

\* the provider argument of the constructor; "other" stands for any string
\* that is none of the three supported ones
Providers == {"anthropic", "openrouter", "oneapi", "other"}

\* one entry of the token file: {token: string, exhausted?: boolean}
FileEntries == [token : PoolTokens] \cup [token : PoolTokens, exhausted : BOOLEAN]

\* the entries of the files a whole client is followed on: the flag is
\* absent or set
ClientFileEntries == [token : PoolTokens] \cup [token : PoolTokens, exhausted : {TRUE}]

\* what a token file holds: a JSON array of at most max entries, or nothing
\* readable
TokenFiles(entries, max) ==
    [readable : {FALSE}, entries : {<< >>}] \cup
    [readable : {TRUE},  entries : UNION {[1..n -> entries] : n \in 0..max}]

----------------------------------------------------------------------------
(* TokenManager *)

\* token_info.get("exhausted", False)
Exhausted(token_info) ==
    IF "exhausted" \in DOMAIN token_info THEN token_info.exhausted ELSE FALSE

\* load_tokens: the parsed file, or the empty list when reading it fails
load_tokens(file) ==
    IF file.readable THEN file.entries ELSE << >>

\* the while loop of get_next_token, entered with the cursor at cur;
\* probes is the list of indices read so far
RECURSIVE scan_tokens(_, _, _, _)
scan_tokens(toks, cur, start_index, probes) ==
    IF ~Exhausted(toks[cur + 1])
    THEN [ret |-> toks[cur + 1].token, index |-> cur, probes |-> Append(probes, cur)]
    ELSE LET nxt == (cur + 1) % Len(toks) IN
         IF nxt = start_index
         THEN [ret |-> None, index |-> nxt, probes |-> Append(probes, cur)]
         ELSE scan_tokens(toks, nxt, start_index, Append(probes, cur))

\* a scan that stops at the end of the list instead of wrapping around
RECURSIVE scan_nowrap(_, _, _, _)
scan_nowrap(toks, cur, start_index, probes) ==
    IF ~Exhausted(toks[cur + 1])
    THEN [ret |-> toks[cur + 1].token, index |-> cur, probes |-> Append(probes, cur)]
    ELSE IF cur + 1 = Len(toks)
         THEN [ret |-> None, index |-> start_index, probes |-> Append(probes, cur)]
         ELSE scan_nowrap(toks, cur + 1, start_index, Append(probes, cur))

get_next_token_nowrap(toks, cur) ==
    IF toks = << >>
    THEN [ret |-> None, index |-> cur, probes |-> << >>]
    ELSE scan_nowrap(toks, cur, cur, << >>)

\* a get_next_token that finds the token but leaves the cursor where it was
get_next_token_still(toks, cur) ==
    IF toks = << >>
    THEN [ret |-> None, index |-> cur, probes |-> << >>]
    ELSE [scan_tokens(toks, cur, cur, << >>) EXCEPT !.index = cur]

\* a get_next_token that falls back on the entry at the cursor when the
\* scan finds every entry exhausted
get_next_token_fallback(toks, cur) ==
    IF toks = << >>
    THEN [ret |-> None, index |-> cur, probes |-> << >>]
    ELSE LET r == scan_tokens(toks, cur, cur, << >>) IN
         IF r.ret = None THEN [r EXCEPT !.ret = toks[cur + 1].token] ELSE r

\* get_next_token: the token returned (or None), the cursor afterwards and
\* the indices read; with the cursor beyond the list the first read
\* self.tokens[self.current_token_index] raises IndexError
get_next_token(toks, cur) ==
    IF toks = << >>
    THEN [ret |-> None, index |-> cur, probes |-> << >>]
    ELSE IF cur >= Len(toks)
    THEN [ret |-> "IndexError", index |-> cur, probes |-> <<cur>>]
    ELSE scan_tokens(toks, cur, cur, << >>)

\* the for loop of mark_token_exhausted from index i on: the index of the
\* first entry whose token equals token, or -1 when the loop runs out
RECURSIVE first_match(_, _, _)
first_match(toks, token, i) ==
    IF i >= Len(toks) THEN -1
    ELSE IF toks[i + 1].token = token THEN i
    ELSE first_match(toks, token, i + 1)

\* a mark_token_exhausted that leaves the cursor on the marked entry
mark_token_exhausted_stay(toks, cur, token) ==
    LET i == first_match(toks, token, 0) IN
    IF i = -1
    THEN [tokens |-> toks, index |-> cur]
    ELSE [tokens |-> [toks EXCEPT ![i + 1] = [token |-> toks[i + 1].token, exhausted |-> TRUE]],
          index  |-> i]

\* mark_token_exhausted: the list and the cursor afterwards
mark_token_exhausted(toks, cur, token) ==
    LET i == first_match(toks, token, 0) IN
    IF i = -1
    THEN [tokens |-> toks, index |-> cur]
    ELSE [tokens |-> [toks EXCEPT ![i + 1] = [token |-> toks[i + 1].token, exhausted |-> TRUE]],
          index  |-> (i + 1) % Len(toks)]

\* a reset that clears the flags of all entries but the first
reset_exhausted_status_butfirst(toks) ==
    [i \in 1..Len(toks) |->
        IF i = 1 THEN toks[i] ELSE [token |-> toks[i].token, exhausted |-> FALSE]]

\* reset_exhausted_status: the list afterwards
reset_exhausted_status(toks) ==
    [i \in 1..Len(toks) |-> [token |-> toks[i].token, exhausted |-> FALSE]]

----------------------------------------------------------------------------
(* State *)

\* the record kept in last: the operation, its argument, how it ended, the
\* token get_next_token returned inside it, the indices get_next_token
\* read, and whether the operation before it was reset_exhausted_status
Op(op, arg, ret, tok, probes) ==
    [op |-> op, arg |-> arg, ret |-> ret, tok |-> tok, probes |-> probes,
     after_reset |-> (last.op = "reset")]

NoHeaders == [h \in {} |-> ""]
NoData == [f \in {} |-> ""]

\* the locals of a stream_chat call stay visible when the call has ended and
\* are gone once the next operation is performed
NoCall ==
    /\ headers' = NoHeaders
    /\ data' = NoData
    /\ requests' = 0
    /\ out' = << >>

\* no second call: its position (none, await, stream, idle), its headers,
\* the requests it has sent
NoPeer == [pc |-> "none", headers |-> NoHeaders, requests |-> 0]

Init ==
    /\ tokens = << >>
    /\ current_token_index = 0
    /\ api_key = None
    /\ provider = None
    /\ headers = NoHeaders
    /\ data = NoData
    /\ requests = 0
    /\ out = << >>
    /\ pc = "new"
    /\ last = [op |-> "none", arg |-> None, ret |-> None, tok |-> None,
               probes |-> << >>, after_reset |-> FALSE]
    /\ conn = 0
    /\ response = << >>
    /\ pos = 0
    /\ pending = << >>
    /\ peer = NoPeer

----------------------------------------------------------------------------
(* TokenManager.__init__ *)

\* TokenManager(token_file): a pool on its own, loaded from the file
TokenManagerInit(file) ==
    /\ pc = "new"
    /\ tokens' = load_tokens(file)
    /\ current_token_index' = 0
    /\ pc' = "pool"
    /\ last' = Op("load", None, None, None, << >>)
    /\ NoCall
    /\ UNCHANGED <<api_key, provider, conn, aside>>

\* load_tokens() called again on a pool in use: the list is replaced by what
\* the file holds now, the cursor stays where it was
LoadTokens(file) ==
    /\ pc = "pool"
    /\ tokens' = load_tokens(file)
    /\ last' = Op("load", None, None, None, << >>)
    /\ NoCall
    /\ UNCHANGED <<current_token_index, api_key, provider, pc, conn, aside>>

----------------------------------------------------------------------------
(* ClaudeClient.__init__ *)

\* BaseClient.__init__(api_key, api_url): stores the key it is given
BaseClientInit(key) == key

\* ClaudeClient(api_key, token_file, provider = p)
ClientInit(key, file, p) ==
    /\ pc = "new"
    /\ LET toks == load_tokens(file)
           n    == get_next_token(toks, 0)
       IN /\ tokens' = toks
          /\ current_token_index' = n.index
          /\ IF n.ret = None /\ key # None
             THEN \* raise ValueError
                  /\ pc' = "config_error"
                  /\ UNCHANGED <<api_key, provider>>
                  /\ last' = Op("init", key, "ValueError", n.ret, n.probes)
             ELSE /\ pc' = "idle"
                  /\ api_key' = BaseClientInit(IF key # None THEN key ELSE n.ret)
                  /\ provider' = p
                  /\ last' = Op("init", key, "ok", n.ret, n.probes)
    /\ NoCall
    /\ UNCHANGED <<conn, aside>>

----------------------------------------------------------------------------
(* The TokenManager's operations, called on a pool on its own or on the    *)
(* pool of a client between two calls                                      *)

GetNextToken ==
    /\ pc \in {"pool", "idle"}
    /\ LET n == get_next_token(tokens, current_token_index) IN
          /\ current_token_index' = n.index
          /\ last' = Op("next", None, n.ret, n.ret, n.probes)
    /\ NoCall
    /\ UNCHANGED <<tokens, api_key, provider, pc, conn, aside>>

MarkTokenExhausted(token) ==
    /\ pc \in {"pool", "idle"}
    /\ LET m == mark_token_exhausted(tokens, current_token_index, token) IN
          /\ tokens' = m.tokens
          /\ current_token_index' = m.index
    /\ last' = Op("mark", token, None, None, << >>)
    /\ NoCall
    /\ UNCHANGED <<api_key, provider, pc, conn, aside>>

ResetExhaustedStatus ==
    /\ pc \in {"pool", "idle"}
    /\ tokens' = reset_exhausted_status(tokens)
    /\ last' = Op("reset", None, None, None, << >>)
    /\ NoCall
    /\ UNCHANGED <<current_token_index, api_key, provider, pc, conn, aside>>

----------------------------------------------------------------------------
(* ClaudeClient.stream_chat: building the request *)

\* the model argument of stream_chat (its default value)
DefaultModel == "claude-3-5-sonnet-20241022"

\* the messages argument of stream_chat
Messages == <<[role |-> "user", content |-> "hello"]>>

\* f"Bearer {token}"
Bearer(token) == "Bearer " \o token

\* the headers stream_chat builds for a supported provider
build_headers(p, key) ==
    IF p = "openrouter"
    THEN [h \in {"Authorization", "Content-Type", "HTTP-Referer", "X-Title"} |->
            CASE h = "Authorization" -> Bearer(key)
              [] h = "Content-Type"  -> "application/json"
              [] h = "HTTP-Referer"  -> "https://github.com/ErlichLiu/DeepClaude"
              [] h = "X-Title"       -> "DeepClaude"]
    ELSE IF p = "oneapi"
    THEN [h \in {"Authorization", "Content-Type"} |->
            CASE h = "Authorization" -> Bearer(key)
              [] h = "Content-Type"  -> "application/json"]
    ELSE [h \in {"x-api-key", "anthropic-version", "content-type", "accept"} |->
            CASE h = "x-api-key"         -> key
              [] h = "anthropic-version" -> "2023-06-01"
              [] h = "content-type"      -> "application/json"
              [] h = "accept"            -> "text/event-stream"]

\* the body stream_chat builds for a supported provider
build_data(p, model, messages) ==
    IF p = "openrouter"
    THEN [model |-> "anthropic/claude-3.5-sonnet", messages |-> messages,
          stream |-> TRUE]
    ELSE IF p = "oneapi"
    THEN [model |-> model, messages |-> messages, stream |-> TRUE]
    ELSE [model |-> model, messages |-> messages, max_tokens |-> 8192, stream |-> TRUE]

\* an _update_headers that writes the anthropic header whatever the provider
update_headers_xapikey(p, hdrs, new_token) ==
    [h \in DOMAIN hdrs \cup {"x-api-key"} |->
        IF h = "x-api-key" THEN new_token ELSE hdrs[h]]

\* _update_headers: the headers with the provider's auth header replaced
update_headers(p, hdrs, new_token) ==
    IF p = "anthropic"
    THEN [h \in DOMAIN hdrs \cup {"x-api-key"} |->
            IF h = "x-api-key" THEN new_token ELSE hdrs[h]]
    ELSE [h \in DOMAIN hdrs \cup {"Authorization"} |->
            IF h = "Authorization" THEN Bearer(new_token) ELSE hdrs[h]]

\* a stream_chat whose provider chain ends in a default branch: any other
\* provider is served as anthropic
StreamChat_default ==
    /\ pc = "idle"
    /\ LET p == IF provider \in {"openrouter", "oneapi"} THEN provider ELSE "anthropic"
       IN /\ headers' = build_headers(p, api_key)
          /\ data' = build_data(p, DefaultModel, Messages)
          /\ requests' = 1
          /\ conn' = 1
          /\ pc' = "await"
          /\ last' = Op("stream_chat", None, "sent", None, << >>)
    /\ out' = << >>
    /\ response' = << >>
    /\ pos' = 0
    /\ pending' = << >>
    /\ UNCHANGED <<tokens, current_token_index, api_key, provider, peer>>

\* stream_chat(messages, model): an unsupported provider raises ValueError
\* before anything is sent; otherwise the first request of _make_request
\* goes out with the headers and body built here
StreamChat ==
    /\ pc = "idle"
    /\ IF provider \in {"openrouter", "oneapi", "anthropic"}
       THEN /\ headers' = build_headers(provider, api_key)
            /\ data' = build_data(provider, DefaultModel, Messages)
            /\ requests' = 1
            /\ conn' = 1
            /\ pc' = "await"
            /\ last' = Op("stream_chat", None, "sent", None, << >>)
       ELSE /\ headers' = NoHeaders
            /\ data' = NoData
            /\ requests' = 0
            /\ conn' = 0
            /\ pc' = "idle"
            /\ last' = Op("stream_chat", None, "ValueError", None, << >>)
    /\ out' = << >>
    /\ response' = << >>
    /\ pos' = 0
    /\ pending' = << >>
    /\ UNCHANGED <<tokens, current_token_index, api_key, provider, peer>>

----------------------------------------------------------------------------
(* ClaudeClient._make_request: the answer to the request in flight *)

\* error bodies of a non-200 response:
\*   quota     {"error": {"code": "insufficient_user_quota"}}
\*   othercode {"error": {"code": "rate_limited"}}
\*   nocode    {"message": "bad request"}
\*   notjson   text that json.loads rejects
\*   notdict   JSON that is not an object, so .get raises AttributeError
ErrorBodies == {"quota", "othercode", "nocode", "notjson", "notdict"}

\* error_data.get("error", {}).get("code") of a parsed error body
error_code(body) ==
    CASE body = "quota"     -> "insufficient_user_quota"
      [] body = "othercode" -> "rate_limited"
      [] body = "nocode"    -> None

\* a classification that rotates the token on every JSON error body
classify_error_any(body) ==
    IF body = "notjson" THEN "failed"
    ELSE IF body = "notdict" THEN "exception"
    ELSE "rotate"

\* what the handler of a non-200 response does with the body: rotate the
\* token, stop after logging, or stop in the outer except clause
classify_error(body) ==
    IF body = "notjson" THEN "failed"
    ELSE IF body = "notdict" THEN "exception"
    ELSE IF error_code(body) = "insufficient_user_quota" THEN "rotate"
    ELSE "failed"

\* a handler that stores get_next_token's result in self.api_key before
\* testing it, so that pool exhaustion leaves the client without credential
ErrorResponse_assignfirst(body) ==
    /\ pc = "await"
    /\ LET what == classify_error(body)
           m    == mark_token_exhausted(tokens, current_token_index, api_key)
           n    == get_next_token(m.tokens, m.index)
       IN IF what = "rotate"
          THEN /\ tokens' = m.tokens
               /\ current_token_index' = n.index
               /\ IF n.ret = "IndexError"
                  THEN \* get_next_token raises on line 123; line 144 catches it
                       /\ pc' = "idle"
                       /\ conn' = 0
                       /\ last' = Op("response", body, "exception", None, n.probes)
                       /\ UNCHANGED <<api_key, headers, requests>>
                  ELSE IF n.ret = None
                  THEN /\ pc' = "idle"
                       /\ conn' = 0
                       /\ last' = Op("response", body, "exhausted", n.ret, n.probes)
                       /\ api_key' = n.ret
                       /\ UNCHANGED <<headers, requests>>
                  ELSE /\ requests < MaxRequests
                       /\ api_key' = n.ret
                       /\ headers' = update_headers(provider, headers, n.ret)
                       /\ requests' = requests + 1
                       \* the response is released by `continue`, the retry opens another
                       /\ conn' = conn - 1 + 1
                       /\ pc' = "await"
                       /\ last' = Op("response", body, "retry", n.ret, n.probes)
          ELSE /\ pc' = "idle"
               /\ conn' = 0
               /\ last' = Op("response", body, what, None, << >>)
               /\ UNCHANGED <<tokens, current_token_index, api_key, headers, requests>>
    /\ UNCHANGED <<provider, data, out, aside>>

\* a non-200 response with the given error body
ErrorResponse(body) ==
    /\ pc = "await"
    /\ LET what == classify_error(body)
           m    == mark_token_exhausted(tokens, current_token_index, api_key)
           n    == get_next_token(m.tokens, m.index)
       IN IF what = "rotate"
          THEN /\ tokens' = m.tokens
               /\ current_token_index' = n.index
               /\ IF n.ret = "IndexError"
                  THEN \* get_next_token raises on line 123; line 144 catches it
                       /\ pc' = "idle"
                       /\ conn' = 0
                       /\ last' = Op("response", body, "exception", None, n.probes)
                       /\ UNCHANGED <<api_key, headers, requests>>
                  ELSE IF n.ret = None
                  THEN /\ pc' = "idle"
                       /\ conn' = 0
                       /\ last' = Op("response", body, "exhausted", n.ret, n.probes)
                       /\ UNCHANGED <<api_key, headers, requests>>
                  ELSE /\ requests < MaxRequests
                       /\ api_key' = n.ret
                       /\ headers' = update_headers(provider, headers, n.ret)
                       /\ requests' = requests + 1
                       \* the response is released by `continue`, the retry opens another
                       /\ conn' = conn - 1 + 1
                       /\ pc' = "await"
                       /\ last' = Op("response", body, "retry", n.ret, n.probes)
          ELSE /\ pc' = "idle"
               /\ conn' = 0
               /\ last' = Op("response", body, what, None, << >>)
               /\ UNCHANGED <<tokens, current_token_index, api_key, headers, requests>>
    /\ UNCHANGED <<provider, data, out, aside>>

\* session.post raises (connection refused, timeout, invalid header, ...)
TransportException ==
    /\ pc \in {"await", "stream"}
    /\ pending = << >>
    /\ pc' = "idle"
    /\ last' = Op("response", None, "exception", None, << >>)
    /\ conn' = 0
    /\ UNCHANGED <<tokens, current_token_index, api_key, provider, headers,
                   data, requests, out, aside>>

\* a 200 response: the body is streamed from here on
OkResponse ==
    /\ pc = "await"
    /\ pc' = "stream"
    /\ last' = Op("response", None, "ok", None, << >>)
    /\ UNCHANGED <<tokens, current_token_index, api_key, provider, headers,
                   data, requests, out, conn, aside>>

----------------------------------------------------------------------------
(* ClaudeClient.stream_chat: decoding the chunks of a 200 response *)

\* content fragments a data line may carry
Fragments == {"Hi"}

\* one line of a decoded chunk.  prefix: the line starts with "data: ".
\* payload, what follows the prefix:
\*   done      [DONE]
\*   malformed text that json.loads rejects
\*   notdict   JSON that is not an object, so .get raises AttributeError
\*   openai    {"choices": [{"delta": {"content": content}}]}
\*   delta     {"type": "content_block_delta", "delta": {"text": content}}
\*   start     {"type": "message_start", "delta": {"text": content}}
Lines ==
    [prefix : {FALSE}, payload : {"openai"}, content : {"Hi"}] \cup
    [prefix : {TRUE}, payload : {"done", "malformed", "notdict"}, content : {""}] \cup
    [prefix : {TRUE}, payload : {"openai", "delta"}, content : Fragments \cup {""}] \cup
    [prefix : {TRUE}, payload : {"start"}, content : {"Hi"}]

\* what split('\n') returns after the last line break of a chunk that ends
\* with one
EmptyLine == [prefix |-> FALSE, payload |-> "malformed", content |-> ""]

\* a chunk of the response body: bytes that decode as UTF-8 into lines,
\* ending with a line break or not, or bytes that do not decode
Chunks ==
    [decodable : {FALSE}, lines : {<< >>}] \cup
    [decodable : {TRUE},
     lines : {ls \o end : ls \in UNION {[1..n -> Lines] : n \in 1..MaxLines},
                          end \in {<< >>, <<EmptyLine>>}}]

\* the content stream_chat extracts from the parsed JSON object of a line
extract_content(p, line) ==
    IF p \in {"openrouter", "oneapi"}
    THEN IF line.payload = "openai" THEN line.content ELSE ""
    ELSE IF line.payload = "delta" THEN line.content ELSE ""

\* a loop that takes the sentinel for one more line to skip
RECURSIVE process_lines_past(_, _, _, _)
process_lines_past(p, lines, i, events) ==
    IF i > Len(lines) THEN [events |-> events, status |-> "continue", next |-> i]
    ELSE LET line == lines[i] IN
         IF ~line.prefix THEN process_lines_past(p, lines, i + 1, events)
         ELSE IF line.payload \in {"done", "malformed"}
         THEN process_lines_past(p, lines, i + 1, events)
         ELSE IF line.payload = "notdict"
         THEN [events |-> events, status |-> "raise", next |-> i + 1]
         ELSE LET content == extract_content(p, line) IN
              IF content # ""
              THEN [events |-> Append(events, <<"answer", content>>),
                    status |-> "yield", next |-> i + 1]
              ELSE process_lines_past(p, lines, i + 1, events)

\* the for loop over the lines of a chunk from line i on, up to the point
\* where stream_chat gives up control: it yields an event and is suspended
\* (the loop goes on from line next when the caller asks for more), it has
\* read every line and awaits the next chunk (continue), it returns at the
\* sentinel, or it raises out of stream_chat
RECURSIVE process_lines(_, _, _, _)
process_lines(p, lines, i, events) ==
    IF i > Len(lines) THEN [events |-> events, status |-> "continue", next |-> i]
    ELSE LET line == lines[i] IN
         IF ~line.prefix THEN process_lines(p, lines, i + 1, events)
         ELSE IF line.payload = "done"
         THEN [events |-> events, status |-> "return", next |-> i + 1]
         ELSE IF line.payload = "malformed" THEN process_lines(p, lines, i + 1, events)
         ELSE IF line.payload = "notdict"
         THEN [events |-> events, status |-> "raise", next |-> i + 1]
         ELSE LET content == extract_content(p, line) IN
              IF content # ""
              THEN [events |-> Append(events, <<"answer", content>>),
                    status |-> "yield", next |-> i + 1]
              ELSE process_lines(p, lines, i + 1, events)

\* the body of the async for loop of stream_chat for one chunk, up to the
\* point where stream_chat gives up control
process_chunk(p, chunk) ==
    IF ~chunk.decodable THEN [events |-> << >>, status |-> "raise", next |-> 1]
    ELSE process_lines(p, chunk.lines, 1, << >>)

\* iter_any delivers a chunk and stream_chat decodes it up to its first
\* yield, or to the end of the chunk or of the call
Chunk(chunk) ==
    /\ pc = "stream"
    /\ pending = << >>
    /\ LET r == process_chunk(provider, chunk) IN
          /\ Len(out) + Len(r.events) <= MaxOut
          /\ out' = out \o r.events
          /\ pc' = IF r.status \in {"continue", "yield"} THEN "stream" ELSE "idle"
          /\ pending' = IF r.status = "yield"
                        THEN SubSeq(chunk.lines, r.next, Len(chunk.lines))
                        ELSE << >>
          /\ last' = Op("chunk", None, r.status, None, << >>)
    /\ UNCHANGED <<tokens, current_token_index, api_key, provider, headers,
                   data, requests, conn, response, pos, peer>>

\* the caller asks for the next event: stream_chat, suspended at a yield,
\* goes on with the lines of the chunk it has not read yet
ResumeChunk ==
    /\ pc = "stream"
    /\ pending # << >>
    /\ LET r == process_lines(provider, pending, 1, << >>) IN
          /\ Len(out) + Len(r.events) <= MaxOut
          /\ out' = out \o r.events
          /\ pc' = IF r.status \in {"continue", "yield"} THEN "stream" ELSE "idle"
          /\ pending' = IF r.status = "yield"
                        THEN SubSeq(pending, r.next, Len(pending))
                        ELSE << >>
          /\ last' = Op("chunk", None, r.status, None, << >>)
    /\ UNCHANGED <<tokens, current_token_index, api_key, provider, headers,
                   data, requests, conn, response, pos, peer>>

\* the response body ends: _make_request breaks out of its loop and the
\* sequence of events ends
StreamEnd ==
    /\ pc = "stream"
    /\ pending = << >>
    /\ pos = Len(response)
    /\ pc' = "idle"
    /\ last' = Op("chunk", None, "end", None, << >>)
    /\ conn' = 0
    /\ UNCHANGED <<tokens, current_token_index, api_key, provider, headers,
                   data, requests, out, aside>>

----------------------------------------------------------------------------
(* The same decoding, followed on the text of the body: iter_any cuts the  *)
(* body into chunks wherever the transport happens to                      *)

\* pieces of text a body is made of; a chunk boundary falls between pieces
Data        == "data: "
NL          == "\n"
OpenAIHi    == "{\"choices\": [{\"delta\": {\"content\": \"Hi\"}}]}"
OpenAIOk    == "{\"choices\": [{\"delta\": {\"content\": \"ok\"}}]}"
OpenAIEmpty == "{\"choices\": [{\"delta\": {\"content\": \"\"}}]}"
DeltaHi     == "{\"type\": \"content_block_delta\", \"delta\": {\"text\": \"Hi\"}}"
StartHi     == "{\"type\": \"message_start\", \"delta\": {\"text\": \"Hi\"}}"
Done        == "[DONE]"
NotJson     == "{not json"
Array       == "[]"
EventLine   == "event: ping"

\* the lines a body is made of, each followed by a line break
BodyLines ==
    {<<Data, OpenAIHi>>, <<Data, OpenAIOk>>, <<Data, OpenAIEmpty>>,
     <<Data, DeltaHi>>, <<Data, StartHi>>, <<Data, Done>>,
     <<Data, NotJson>>, <<Data, Array>>, <<EventLine>>}

\* the text of a list of lines
RECURSIVE join_lines(_)
join_lines(ls) ==
    IF ls = << >> THEN << >>
    ELSE Head(ls) \o <<NL>> \o join_lines(Tail(ls))

\* the bodies of a 200 response
Bodies ==
    {join_lines(ls) : ls \in UNION {[1..n -> BodyLines] : n \in 0..MaxBodyLines}}

\* chunk_str.split('\n') from piece i on; cur is the line being collected
RECURSIVE split(_, _, _)
split(chunk_str, i, cur) ==
    IF i > Len(chunk_str) THEN <<cur>>
    ELSE IF chunk_str[i] = NL THEN <<cur>> \o split(chunk_str, i + 1, << >>)
    ELSE split(chunk_str, i + 1, Append(cur, chunk_str[i]))

\* what stream_chat makes of one line: line.startswith('data: '), the test
\* for the sentinel, json.loads of line[6:] and the shape of its result.
\* Two pieces in a row, or none, are no JSON text.
parse_line(line) ==
    IF line = << >> \/ line[1] # Data
    THEN [prefix |-> FALSE, payload |-> "malformed", content |-> ""]
    ELSE LET json_str == Tail(line) IN
         IF json_str = <<Done>>
         THEN [prefix |-> TRUE, payload |-> "done", content |-> ""]
         ELSE IF Len(json_str) # 1
         THEN [prefix |-> TRUE, payload |-> "malformed", content |-> ""]
         ELSE CASE json_str[1] = OpenAIHi    -> [prefix |-> TRUE, payload |-> "openai", content |-> "Hi"]
                [] json_str[1] = OpenAIOk    -> [prefix |-> TRUE, payload |-> "openai", content |-> "ok"]
                [] json_str[1] = OpenAIEmpty -> [prefix |-> TRUE, payload |-> "openai", content |-> ""]
                [] json_str[1] = DeltaHi     -> [prefix |-> TRUE, payload |-> "delta", content |-> "Hi"]
                [] json_str[1] = StartHi     -> [prefix |-> TRUE, payload |-> "start", content |-> "Hi"]
                [] json_str[1] = Array       -> [prefix |-> TRUE, payload |-> "notdict", content |-> ""]
                [] OTHER -> [prefix |-> TRUE, payload |-> "malformed", content |-> ""]

\* the lines of a chunk of text as process_lines reads them
chunk_lines(chunk_str) ==
    LET ls == split(chunk_str, 1, << >>) IN [i \in 1..Len(ls) |-> parse_line(ls[i])]

\* the body of the async for loop of stream_chat for one chunk of text, up
\* to the point where stream_chat gives up control; a chunk of nothing but
\* line breaks is skipped as blank
process_text(p, chunk_str) ==
    IF \A i \in 1..Len(chunk_str) : chunk_str[i] = NL
    THEN [events |-> << >>, status |-> "continue", next |-> 1]
    ELSE process_lines(p, chunk_lines(chunk_str), 1, << >>)

\* a client reading its key from a pool of one token
BodyFile == [readable |-> TRUE, entries |-> <<[token |-> "t1"]>>]

\* a 200 response with one of the bodies
OkResponseBody ==
    /\ pc = "await"
    /\ pc' = "stream"
    /\ \E b \in Bodies : response' = b
    /\ pos' = 0
    /\ last' = Op("response", None, "ok", None, << >>)
    /\ UNCHANGED <<tokens, current_token_index, api_key, provider, headers,
                   data, requests, out, conn, pending, peer>>

\* iter_any delivers the next pieces of the body, one or more, as one chunk
\* and stream_chat decodes it up to its first yield, or to the end of the
\* chunk or of the call; the lines not read yet are kept as text
DeliverChunk ==
    /\ pc = "stream"
    /\ pending = << >>
    /\ \E k \in 1..(Len(response) - pos) :
          LET chunk_str == SubSeq(response, pos + 1, pos + k)
              lines     == split(chunk_str, 1, << >>)
              r         == process_text(provider, chunk_str)
          IN /\ out' = out \o r.events
             /\ pc' = IF r.status \in {"continue", "yield"} THEN "stream" ELSE "idle"
             /\ pending' = IF r.status = "yield"
                           THEN SubSeq(lines, r.next, Len(lines))
                           ELSE << >>
             /\ last' = Op("chunk", None, r.status, None, << >>)
             /\ pos' = pos + k
    /\ UNCHANGED <<tokens, current_token_index, api_key, provider, headers,
                   data, requests, conn, response, peer>>

\* the caller asks for the next event: stream_chat, suspended at a yield,
\* goes on with the lines of text of the chunk it has not read yet
ResumeText ==
    /\ pc = "stream"
    /\ pending # << >>
    /\ LET lines == [i \in 1..Len(pending) |-> parse_line(pending[i])]
           r     == process_lines(provider, lines, 1, << >>)
       IN /\ out' = out \o r.events
          /\ pc' = IF r.status \in {"continue", "yield"} THEN "stream" ELSE "idle"
          /\ pending' = IF r.status = "yield"
                        THEN SubSeq(pending, r.next, Len(pending))
                        ELSE << >>
          /\ last' = Op("chunk", None, r.status, None, << >>)
    /\ UNCHANGED <<tokens, current_token_index, api_key, provider, headers,
                   data, requests, conn, response, pos, peer>>

\* the event loop closes a _make_request generator that stream_chat left
\* suspended at its yield (return at the sentinel, exception while decoding):
\* GeneratorExit unwinds the two async with blocks
AsyncGenFinalize ==
    /\ pc = "idle"
    /\ conn > 0
    /\ conn' = 0
    /\ last' = Op("aclose", None, None, None, << >>)
    /\ UNCHANGED <<tokens, current_token_index, api_key, provider, headers,
                   data, requests, out, pc, aside>>

----------------------------------------------------------------------------
(* A second stream_chat call on the same client, suspended and resumed at *)
(* its awaits between the steps of the first.  It has its own headers and *)
(* data; self.api_key and the token manager are the client's.             *)

\* stream_chat of the second call, up to its first request
PeerStreamChat ==
    /\ pc \in {"idle", "await", "stream"}
    /\ peer.pc \in {"none", "idle"}
    /\ provider \in {"openrouter", "oneapi", "anthropic"}
    /\ peer' = [pc |-> "await", headers |-> build_headers(provider, api_key),
                requests |-> 1]
    /\ last' = Op("peer_stream_chat", None, "sent", None, << >>)
    /\ UNCHANGED <<tokens, current_token_index, api_key, provider, headers,
                   data, requests, out, pc, conn, response, pos, pending>>

\* a non-200 response to the request of the second call
PeerErrorResponse(body) ==
    /\ peer.pc = "await"
    /\ LET what == classify_error(body)
           m    == mark_token_exhausted(tokens, current_token_index, api_key)
           n    == get_next_token(m.tokens, m.index)
       IN IF what = "rotate"
          THEN /\ tokens' = m.tokens
               /\ current_token_index' = n.index
               /\ IF n.ret = "IndexError"
                  THEN \* get_next_token raises on line 123; line 144 catches it
                       /\ peer' = [peer EXCEPT !.pc = "idle"]
                       /\ last' = Op("peer_response", body, "exception", None, n.probes)
                       /\ UNCHANGED api_key
                  ELSE IF n.ret = None
                  THEN /\ peer' = [peer EXCEPT !.pc = "idle"]
                       /\ last' = Op("peer_response", body, "exhausted", n.ret, n.probes)
                       /\ UNCHANGED api_key
                  ELSE /\ peer.requests < MaxPeerRequests
                       /\ api_key' = n.ret
                       /\ peer' = [peer EXCEPT
                                     !.headers = update_headers(provider, peer.headers, n.ret),
                                     !.requests = peer.requests + 1]
                       /\ last' = Op("peer_response", body, "retry", n.ret, n.probes)
          ELSE /\ peer' = [peer EXCEPT !.pc = "idle"]
               /\ last' = Op("peer_response", body, what, None, << >>)
               /\ UNCHANGED <<tokens, current_token_index, api_key>>
    /\ UNCHANGED <<provider, headers, data, requests, out, pc, conn, response, pos,
                   pending>>

\* a 200 response to the second call: it streams from here on.  Its chunks
\* and events touch nothing the client or the first call holds, so the steps
\* of its decode loop leave every variable as it is.
PeerOkResponse ==
    /\ peer.pc = "await"
    /\ peer' = [peer EXCEPT !.pc = "stream"]
    /\ last' = Op("peer_response", None, "ok", None, << >>)
    /\ UNCHANGED <<tokens, current_token_index, api_key, provider, headers,
                   data, requests, out, pc, conn, response, pos, pending>>

\* the sequence of the second call ends: its body ran out, the sentinel was
\* decoded, the transport or the decode loop raised
PeerStreamEnd ==
    /\ peer.pc = "stream"
    /\ peer' = [peer EXCEPT !.pc = "idle"]
    /\ last' = Op("peer_chunk", None, "end", None, << >>)
    /\ UNCHANGED <<tokens, current_token_index, api_key, provider, headers,
                   data, requests, out, pc, conn, response, pos, pending>>

----------------------------------------------------------------------------

\* a TokenManager on its own
NextPool ==
    \/ \E file \in TokenFiles(FileEntries, MaxPool) : TokenManagerInit(file)
    \/ GetNextToken
    \/ \E token \in PoolTokens \cup {"k"} : MarkTokenExhausted(token)
    \/ ResetExhaustedStatus

SpecPool == Init /\ [][NextPool]_vars

\* a TokenManager whose file is rewritten and loaded again
NextReload ==
    \/ \E file \in TokenFiles(ClientFileEntries, MaxReload) : TokenManagerInit(file)
    \/ \E file \in TokenFiles(ClientFileEntries, MaxReload) : LoadTokens(file)
    \/ GetNextToken
    \/ \E token \in PoolTokens : MarkTokenExhausted(token)
    \/ ResetExhaustedStatus

SpecReload == Init /\ [][NextReload]_vars

\* a client and its pool
Next ==
    \/ \E key \in ApiKeyArgs, p \in Providers,
          file \in TokenFiles(ClientFileEntries, MaxClientPool) :
             ClientInit(key, file, p)
    \/ GetNextToken
    \/ \E token \in PoolTokens \cup {"k"} : MarkTokenExhausted(token)
    \/ ResetExhaustedStatus
    \/ StreamChat
    \/ \E body \in ErrorBodies : ErrorResponse(body)
    \/ TransportException
    \/ OkResponse
    \/ \E chunk \in Chunks : Chunk(chunk)
    \/ ResumeChunk
    \/ StreamEnd
    \/ AsyncGenFinalize

Spec == Init /\ [][Next]_vars

\* one client, its calls answered 200, the body cut into chunks at will
NextBody ==
    \/ \E p \in Providers : ClientInit(None, BodyFile, p)
    \/ StreamChat
    \/ OkResponseBody
    \/ DeliverChunk
    \/ ResumeText
    \/ StreamEnd
    \/ AsyncGenFinalize

SpecBody == Init /\ [][NextBody]_vars

\* one client and two calls on it that interleave at their awaits
NextPeer ==
    \/ \E p \in Providers, file \in TokenFiles(ClientFileEntries, MaxPeerPool) :
          ClientInit(None, file, p)
    \/ StreamChat
    \/ \E body \in ErrorBodies : ErrorResponse(body)
    \/ OkResponse
    \/ StreamEnd
    \/ PeerStreamChat
    \/ \E body \in ErrorBodies : PeerErrorResponse(body)
    \/ PeerOkResponse
    \/ PeerStreamEnd

SpecPeer == Init /\ [][NextPeer]_vars

----------------------------------------------------------------------------
(* Properties.  A property of one operation is stated over the step that  *)
(* performs it: unprimed variables are the state the operation starts     *)
(* from, primed variables the state it leaves, and last' names the        *)
(* operation and what it returned.                                         *)

\* the 0-based index of the entry reached k places after index i
At(toks, i, k) == (i + k) % Len(toks)

\* the offsets k from index i at which the entry is not exhausted
Available(toks, i) ==
    {k \in 0..(Len(toks) - 1) : ~Exhausted(toks[At(toks, i, k) + 1])}

\* the 1-based positions of the entries whose token is t
Holding(toks, t) == {m \in 1..Len(toks) : toks[m].token = t}

\* the least element of a non-empty set of integers
Least(S) == CHOOSE x \in S : \A y \in S : x <= y

\* C1: get_next_token returns the token of the first entry that is not
\* exhausted in the order i, i+1, ..., i+N-1 (mod N) from the cursor i; when
\* all N entries are exhausted it returns None after reading exactly N
\* entries, each once; on an empty pool it returns None and reads nothing.
C1_NextReturnsFirstAvailable ==
    [][last'.op = "next" =>
        LET N == Len(tokens)
            i == current_token_index
        IN IF N = 0
           THEN last'.ret = None /\ last'.probes = << >>
           ELSE IF Available(tokens, i) # {}
           THEN last'.ret = tokens[At(tokens, i, Least(Available(tokens, i))) + 1].token
           ELSE /\ last'.ret = None
                /\ Len(last'.probes) = N
                /\ {last'.probes[j] : j \in 1..N} = 0..(N - 1)
    ]_vars

\* get_next_token skipped an exhausted entry at the cursor, wrapped around
\* the end of the list and returned the token of an earlier entry
C1_Witness ==
    /\ last.op = "next"
    /\ last.ret # None
    /\ Len(last.probes) = 2
    /\ last.probes[2] < last.probes[1]
    /\ tokens[last.probes[2] + 1].token = last.ret

\* C2 (as claimed): when get_next_token returns a token, the cursor and the
\* entries after the call equal the cursor and the entries before it.
C2_NextLeavesCursor ==
    [][last'.op = "next" /\ last'.ret # None =>
        /\ current_token_index' = current_token_index
        /\ tokens' = tokens
    ]_vars

\* C2 (amended): get_next_token never changes an entry; when it returns a
\* token the cursor afterwards is the index of the entry it returned, the
\* first one not exhausted from the old cursor on, so the cursor keeps its
\* value exactly when the entry under it was not exhausted; when it returns
\* None the cursor keeps its value.
C2_NextMovesCursorToReturned ==
    [][last'.op = "next" =>
        /\ tokens' = tokens
        /\ IF last'.ret # None
           THEN /\ current_token_index' =
                      At(tokens, current_token_index,
                         Least(Available(tokens, current_token_index)))
                /\ (current_token_index' = current_token_index
                      <=> ~Exhausted(tokens[current_token_index + 1]))
           ELSE current_token_index' = current_token_index
    ]_vars

\* get_next_token returned a token and left the cursor on a later entry
\* than the one it started from
C2_Witness ==
    /\ last.op = "next"
    /\ last.ret # None
    /\ Len(last.probes) > 1
    /\ current_token_index = last.probes[Len(last.probes)]
    /\ current_token_index # last.probes[1]

\* C3: mark_token_exhausted(t) on a pool of N entries: when some entry holds
\* t, the flag of the first such entry (index m) becomes true, the cursor
\* becomes (m + 1) mod N and every other entry, every token and the order
\* are unchanged; when no entry holds t the pool and the cursor are unchanged.
C3_MarkFirstMatch ==
    [][last'.op = "mark" =>
        LET N == Len(tokens)
            H == Holding(tokens, last'.arg)
        IN IF H = {}
           THEN tokens' = tokens /\ current_token_index' = current_token_index
           ELSE LET m == Least(H) IN
                /\ Len(tokens') = N
                /\ Exhausted(tokens'[m])
                /\ current_token_index' = m % N
                /\ \A j \in 1..N :
                      /\ tokens'[j].token = tokens[j].token
                      /\ j # m => tokens'[j] = tokens[j]
    ]_vars

\* mark_token_exhausted marked the first of two entries holding the same
\* token, left the second one usable and put the cursor on it
C3_Witness ==
    /\ last.op = "mark"
    /\ Len(tokens) = 3
    /\ tokens[1].token = last.arg
    /\ tokens[2].token = last.arg
    /\ Exhausted(tokens[1])
    /\ ~Exhausted(tokens[2])
    /\ current_token_index = 1

\* C4: reset_exhausted_status sets the flag of every entry to false and
\* leaves the cursor, the tokens and their order unchanged; and a
\* get_next_token that directly follows it on a non-empty pool returns a
\* token.
C4_ResetThenNext ==
    [][/\ last'.op = "reset" =>
            /\ Len(tokens') = Len(tokens)
            /\ current_token_index' = current_token_index
            /\ \A j \in 1..Len(tokens) :
                  /\ tokens'[j].token = tokens[j].token
                  /\ "exhausted" \in DOMAIN tokens'[j]
                  /\ tokens'[j].exhausted = FALSE
       /\ (last.op = "reset" /\ last'.op = "next" /\ tokens # << >>) =>
            last'.ret # None
    ]_vars

\* get_next_token directly after a reset returned the token under a cursor
\* that earlier operations had moved off the first entry
C4_Witness ==
    /\ last.op = "next"
    /\ last.after_reset
    /\ Len(tokens) = 3
    /\ current_token_index = 1
    /\ last.ret = tokens[2].token
    /\ \A j \in 1..3 : ~Exhausted(tokens[j])

\* C5: constructing the client raises whenever no api_key is supplied and
\* the pool yields no token, so no client exists whose active credential is
\* absent.
C5_NoCredentialFailsConstruction ==
    /\ (last.op = "init" /\ last.arg = None /\ last.tok = None) => pc = "config_error"
    /\ pc \in {"idle", "await", "stream"} => api_key # None

\* C6: with an api_key supplied construction succeeds and the active
\* credential is that key whatever the pool holds; with none supplied and a
\* usable entry in the pool the active credential is the token
\* get_next_token returned.
C6_ExplicitKeyWins ==
    /\ (last.op = "init" /\ last.arg # None) => (pc = "idle" /\ api_key = last.arg)
    /\ (last.op = "init" /\ last.arg = None /\ last.tok # None) =>
            (pc = "idle" /\ api_key = last.tok)

\* the pool holds a usable entry whose token is not the active credential
OtherTokenUsable ==
    \E j \in 1..Len(tokens) : ~Exhausted(tokens[j]) /\ tokens[j].token # api_key

\* the value the provider's auth header carries in hdrs
AuthValue(hdrs) ==
    IF provider = "anthropic" THEN hdrs["x-api-key"] ELSE hdrs["Authorization"]

\* the value the provider's auth header must carry for token
AuthFor(token) ==
    IF provider = "anthropic" THEN token ELSE "Bearer " \o token

\* C7: a quota-coded response received while the pool holds a usable entry
\* other than the active credential is followed by exactly one new request:
\* the active credential's entry is flagged, the active credential becomes
\* the token get_next_token returns (the usable entry under the cursor), the
\* new request carries it in the provider's auth header with the same body,
\* and the caller sees no event and no error.
C7_QuotaRetriesOnceWithNextToken ==
    [][(last'.op = "response" /\ last'.arg = "quota" /\ OtherTokenUsable) =>
        /\ last'.ret = "retry"
        /\ pc' = "await"
        /\ requests' = requests + 1
        /\ Holding(tokens, api_key) # {} =>
              Exhausted(tokens'[Least(Holding(tokens, api_key))])
        /\ api_key' = last'.tok
        /\ api_key' = tokens'[current_token_index' + 1].token
        /\ ~Exhausted(tokens'[current_token_index' + 1])
        /\ DOMAIN headers' = DOMAIN headers
        /\ AuthValue(headers') = AuthFor(api_key')
        /\ data' = data
        /\ out = << >> /\ out' = << >>
    ]_vars

\* an openrouter client whose first token was rejected for quota has sent
\* its second request with the second token as bearer
C7_Witness ==
    /\ last.op = "response"
    /\ last.ret = "retry"
    /\ provider = "openrouter"
    /\ requests = 2
    /\ tokens[1].token = "t1" /\ Exhausted(tokens[1])
    /\ api_key = "t2"
    /\ headers["Authorization"] = "Bearer t2"
    /\ pc = "await"

\* C8: a quota-coded response after which no usable entry remains ends the
\* call: no event was or is produced, nothing is raised, no request follows.
C8_QuotaWithEmptyPoolEndsSilently ==
    [][(/\ last'.op = "response" /\ last'.arg = "quota"
        /\ \A j \in 1..Len(tokens') : Exhausted(tokens'[j])) =>
        /\ last'.ret = "exhausted"
        /\ pc' = "idle"
        /\ requests' = requests
        /\ out = << >> /\ out' = << >>
    ]_vars

\* the second token of a two-entry pool was rejected for quota after the
\* first, and the call ended without an event
C8_Witness ==
    /\ last.op = "response"
    /\ last.ret = "exhausted"
    /\ Len(tokens) = 2
    /\ \A j \in 1..2 : Exhausted(tokens[j])
    /\ requests = 2
    /\ out = << >>
    /\ pc = "idle"

\* C9: only a quota-coded error response is followed by another request:
\* after an error response whose body is not JSON or carries another code,
\* and after a transport exception, the call sends nothing more and its
\* output ends where it was.
C9_OnlyQuotaRetries ==
    [][/\ (/\ last'.op = "response"
           /\ \/ last'.arg \in {"othercode", "nocode", "notjson", "notdict"}
              \/ last'.ret = "exception") =>
            /\ pc' = "idle"
            /\ requests' = requests
            /\ out' = out
            /\ tokens' = tokens
            /\ api_key' = api_key
       /\ (pc = "await" /\ pc' = "await") =>
            (last'.op = "response" /\ last'.arg = "quota")
    ]_vars

\* a call that had already rotated once got an error with another code and
\* ended after its second request
C9_Witness ==
    /\ last.op = "response"
    /\ last.arg = "othercode"
    /\ last.ret = "failed"
    /\ requests = 2
    /\ pc = "idle"

\* C10: a call answered with the quota code on every request ends after at
\* most N + 1 requests for a pool of N entries, whatever the file holds.
C10_AtMostNPlusOneRequests ==
    requests <= Len(tokens) + 1

\* C11: with a supported provider no step of a stream_chat call surfaces an
\* exception to the caller: whatever a chunk holds (a data line that is JSON
\* of another shape, bytes that are not UTF-8 text), processing it never
\* raises out of stream_chat.
C11_NoExceptionSurfaces ==
    ~(/\ provider \in {"anthropic", "openrouter", "oneapi"}
      /\ last.op = "chunk"
      /\ last.ret = "raise")

\* C16: a stream_chat call on a client whose provider is none of anthropic,
\* openrouter, oneapi raises the configuration error at once: no request is
\* sent, no connection is opened, the output is empty, the call is over, and
\* the pool and the active credential are as before.
C16_UnsupportedProviderFails ==
    [][(/\ last'.op = "stream_chat"
        /\ provider \notin {"anthropic", "openrouter", "oneapi"}) =>
            /\ last'.ret = "ValueError"
            /\ requests' = 0
            /\ conn' = 0
            /\ out' = << >>
            /\ pc' = "idle"
            /\ tokens' = tokens
            /\ current_token_index' = current_token_index
            /\ api_key' = api_key
    ]_vars

\* a client of another provider, holding a pool token, was asked to stream
\* and refused
C16_Witness ==
    /\ last.op = "stream_chat"
    /\ last.ret = "ValueError"
    /\ provider = "other"
    /\ api_key \in PoolTokens
    /\ Len(tokens) > 0
    /\ requests = 0
    /\ out = << >>

\* C15 as stated: no step of a stream_chat call changes the provider or the
\* client's active credential.
C15_CallLeavesCredential ==
    [][(last'.op \in {"stream_chat", "response", "chunk", "aclose"}) =>
            /\ provider' = provider
            /\ api_key' = api_key
    ]_vars

\* C15, amended: a stream_chat call changes, of the state that outlives it,
\* only the pool and the active credential. The provider never changes; the
\* credential changes only at a quota retry, to the token get_next_token
\* returned, which an entry of the pool holds; the pool changes only at a
\* quota-coded response; and a call starts from the provider and the
\* credential alone: its first request carries the credential in the
\* provider's auth header and its output starts empty, whatever the call
\* before left behind.
C15_CallChangesOnlyPoolAndCredential ==
    [][(last'.op \in {"stream_chat", "response", "chunk", "aclose"}) =>
            /\ provider' = provider
            /\ (api_key' # api_key) =>
                  /\ last'.op = "response"
                  /\ last'.ret = "retry"
                  /\ api_key' = last'.tok
                  /\ Holding(tokens', api_key') # {}
            /\ (tokens' # tokens \/ current_token_index' # current_token_index) =>
                  (last'.op = "response" /\ last'.arg = "quota")
            /\ (last'.op = "stream_chat" /\ last'.ret = "sent") =>
                  /\ AuthValue(headers') = AuthFor(api_key)
                  /\ requests' = 1
                  /\ out' = << >>
    ]_vars

\* a client built on t1 has finished a call that rotated to t2 and has
\* started its next call with t2
C15_Witness ==
    /\ last.op = "stream_chat"
    /\ last.ret = "sent"
    /\ api_key = "t2"
    /\ tokens[1].token = "t1" /\ Exhausted(tokens[1])
    /\ AuthValue(headers) = AuthFor("t2")
    /\ requests = 1

\* C17: after construction and any sequence of load, next, mark and reset,
\* the cursor of a non-empty pool is a valid index, and right after next()
\* returned a token the cursor is the index of a non-exhausted entry holding
\* that token.
C17_CursorInRange ==
    (pc = "pool" /\ tokens # << >>) =>
        /\ 0 <= current_token_index
        /\ current_token_index < Len(tokens)
        /\ (last.op = "next" /\ last.ret # None) =>
              /\ tokens[current_token_index + 1].token = last.ret
              /\ ~Exhausted(tokens[current_token_index + 1])

\* C18: a call never holds more than one open connection, and when its
\* output sequence has ended on one of the paths natural end of the stream,
\* sentinel, non-quota error, pool exhaustion or transport exception, it
\* holds none.
C18_ConnectionReleasedAtEnd ==
    /\ conn <= 1
    /\ (/\ pc = "idle"
        /\ last.op \in {"chunk", "response"}
        /\ last.ret \in {"end", "return", "failed", "exhausted", "exception"}) =>
            (conn = 0)

----------------------------------------------------------------------------
(* What the text of a body says, line by line *)

\* the lines of a text: what precedes each line break, and what follows the
\* last one
TextLines(text) == split(text, 1, << >>)

\* the line is the data line carrying the terminal sentinel
IsSentinel(line) == line = <<Data, Done>>

\* the line is a data line whose JSON is not an object
IsWrongShape(line) == line = <<Data, Array>>

\* the line is a data line whose payload is no JSON text
IsMalformed(line) ==
    /\ line # << >>
    /\ line[1] = Data
    /\ ~IsSentinel(line)
    /\ \/ Len(line) # 2
       \/ line[2] \in {NotJson, EventLine, Data, NL, Done}

\* the fragment of a line under the grammar of provider p: choices[0].delta.content
\* for openrouter and oneapi, delta.text of a content_block_delta for
\* anthropic; "" when the line carries none
Fragment(p, line) ==
    IF p \in {"openrouter", "oneapi"}
    THEN IF line = <<Data, OpenAIHi>> THEN "Hi"
         ELSE IF line = <<Data, OpenAIOk>> THEN "ok"
         ELSE ""
    ELSE IF p = "anthropic"
    THEN IF line = <<Data, DeltaHi>> THEN "Hi" ELSE ""
    ELSE ""

\* the events of a list of lines: one per line with a non-empty fragment
RECURSIVE EventsOf(_, _)
EventsOf(p, ls) ==
    IF ls = << >> THEN << >>
    ELSE (IF Fragment(p, Head(ls)) # ""
          THEN << <<"answer", Fragment(p, Head(ls))>> >>
          ELSE << >>) \o EventsOf(p, Tail(ls))

\* the lines before the first sentinel line, all of them when there is none
BeforeSentinel(ls) ==
    LET S == {i \in 1..Len(ls) : IsSentinel(ls[i])} IN
    IF S = {} THEN ls ELSE SubSeq(ls, 1, Least(S) - 1)

\* the events the text of a whole body stands for
ExpectedEvents(p, text) == EventsOf(p, BeforeSentinel(TextLines(text)))

\* the lines a step of the decode loop has before it: the lines of the chunk
\* iter_any delivers, or the lines left of the chunk the call is suspended in
LinesAhead ==
    IF pending # << >> THEN pending
    ELSE TextLines(SubSeq(response, pos + 1, pos'))

\* the sentinel text is among what the step has before it; every sentinel
\* line has it
DoneAhead ==
    IF pending # << >> THEN \E i \in 1..Len(pending) : IsSentinel(pending[i])
    ELSE \E i \in (pos + 1)..pos' : response[i] = Done

\* reading the lines in order, the loop gets to a sentinel line: no line
\* before it makes the loop yield or raise
RECURSIVE ReachesSentinel(_, _)
ReachesSentinel(p, ls) ==
    IF ls = << >> THEN FALSE
    ELSE IF IsSentinel(Head(ls)) THEN TRUE
    ELSE IF IsWrongShape(Head(ls)) \/ Fragment(p, Head(ls)) # "" THEN FALSE
    ELSE ReachesSentinel(p, Tail(ls))

\* C12: when the decode loop gets to a sentinel data line (no line before it
\* makes it yield or raise first), the call returns there: that step adds
\* no event, the lines left of the chunk are dropped, and from then on no
\* chunk is decoded and the output stays as it is until another call starts.
C12_SentinelEndsSequence ==
    [][/\ (/\ pc = "stream"
           /\ last'.op = "chunk"
           /\ DoneAhead
           /\ ReachesSentinel(provider, LinesAhead)) =>
                /\ last'.ret = "return"
                /\ pc' = "idle"
                /\ out' = out
                /\ pending' = << >>
       /\ (last.op = "chunk" /\ last.ret = "return") =>
            /\ pc = "idle"
            /\ pending = << >>
            /\ last'.op # "chunk"
            /\ (out' = out \/ last'.op \in {"stream_chat", "init"})
    ]_vars

\* one chunk brought a fragment, the sentinel and one more fragment: the call
\* yielded the first event, was resumed and returned at the sentinel
C12_Witness ==
    /\ provider = "openrouter"
    /\ response = <<Data, OpenAIHi, NL, Data, Done, NL, Data, OpenAIOk, NL>>
    /\ pos = 9
    /\ pending = << >>
    /\ last.op = "chunk"
    /\ last.ret = "return"
    /\ out = << <<"answer", "Hi">> >>
    /\ pc = "idle"

\* the call that streamed the body has just ended: the stream ran out, the
\* sentinel was decoded, or the decode loop raised
StreamOver ==
    /\ pc = "idle"
    /\ last.op = "chunk"
    /\ last.ret \in {"end", "return", "raise"}

\* C13: a body with a data line whose payload is no JSON yields, by the end
\* of the call, the event of every valid data line before the sentinel, in
\* order: the malformed line costs no event of another line.
C13_MalformedLineSkipped ==
    (/\ StreamOver
     /\ \E i \in 1..Len(BeforeSentinel(TextLines(response))) :
           IsMalformed(TextLines(response)[i])) =>
        out = ExpectedEvents(provider, response)

\* C14: when the call on a 200 response is over, its output is exactly the
\* sequence of ("answer", fragment) pairs of the data lines before the
\* sentinel that carry a non-empty fragment under the provider's grammar.
C14_OutputIsExpectedEvents ==
    StreamOver => (out = ExpectedEvents(provider, response))

\* the events of the lines of one chunk when the caller reads the call to
\* its end: the loop is resumed after every yield
RECURSIVE read_to_end(_, _, _)
read_to_end(p, lines, events) ==
    LET r == process_lines(p, lines, 1, events) IN
    IF r.status = "yield"
    THEN read_to_end(p, SubSeq(lines, r.next, Len(lines)), r.events)
    ELSE r.events

\* the events of a body that comes as one chunk
AsOneChunk(p, text) ==
    IF \A i \in 1..Len(text) : text[i] = NL THEN << >>
    ELSE read_to_end(p, chunk_lines(text), << >>)

\* C19: the output of a call depends on the text of the body alone: however
\* the transport cut a body free of wrong-shape lines into chunks, a call
\* that ended without exception has yielded what it yields when the body
\* comes as one chunk.
C19_ChunkingIndependent ==
    (/\ StreamOver
     /\ last.ret \in {"end", "return"}
     /\ \A i \in 1..Len(TextLines(response)) : ~IsWrongShape(TextLines(response)[i])) =>
        out = AsOneChunk(provider, response)

\* the entries a step has newly flagged exhausted
NewlyExhausted ==
    {j \in 1..Len(tokens) : Exhausted(tokens'[j]) /\ ~Exhausted(tokens[j])}

\* C20: with two calls interleaved on one client, a response with the quota
\* code flags only entries of the token the answered request carried in its
\* auth header.
C20_MarksOnlyRejectedToken ==
    [][/\ (last'.op = "response") =>
            \A j \in NewlyExhausted : AuthValue(headers) = AuthFor(tokens[j].token)
       /\ (last'.op = "peer_response") =>
            \A j \in NewlyExhausted : AuthValue(peer.headers) = AuthFor(tokens[j].token)
    ]_vars

====
